---------------------------- MODULE Spec2Model ----------------------------
(***************************************************************************)
(* A model of run_system.py: the RecommendationSystem (catalog build with  *)
(* the on-disk logo cache, colour signature, distance ranking) and the     *)
(* /upload request handler that drives it.                                 *)
(*                                                                         *)
(* Numbers.  A signature component is sum(i*w)/sum(w), a float.  Every     *)
(* image of the model has channel sums divisible by its pixel count, so    *)
(* the quotient is an integer and \div computes it exactly.  A distance is *)
(* scipy's wasserstein_distance of two 3-element samples; it is a multiple *)
(* of 1/3, and the model carries 3 * distance (an integer, same order).    *)
(***************************************************************************)
EXTENDS Integers, Sequences, FiniteSets, TLC

\* ------------------------------------------------------------- bounds
\* Records in spy_data.json (specification Spec).
MaxRecords == 2
\* Entries of a built catalog (specification SpecRank).
MaxCatalog == 6
\* Process restarts (each runs RecommendationSystem.__init__ again).
MaxRestarts == 1

\* ------------------------------------------------- program constants
\* Buckets per band of a histogram (256, 256*2, 256*3 in the slices).
NumBuckets == 256
\* argsort()[1:6]: first and one-past-last position of the slice.
SliceFrom == 1
SliceTo == 6

ALLOWED_EXTENSIONS == {"png", "jpg", "jpeg"}
useful_fields == <<"symbol", "shortName", "logo_url">>

\* --------------------------------------------------------- values
\* pandas' missing value in a text column (a JSON null or an absent key).
NA == "<NA>"
\* Python's None.
None == [kind |-> "None"]
\* A path with no file.
NoFile == [kind |-> "NoFile"]
\* File content (or a network response) that PIL cannot identify as an image.
Junk == [kind |-> "Junk"]
\* urlopen() raising (no route, 404, timeout of the peer, ...).
NetError == [kind |-> "NetError"]

\* A decoded image: the format of the file it was read from, its bands
\* and its pixels.
Img(f, b, px) == [kind |-> "image", format |-> f, bands |-> b, pixels |-> px]
RedJ   == Img("JPEG", 3, << <<255, 0, 0>> >>)
GreenP == Img("PNG", 3, << <<0, 255, 0>> >>)
MixP   == Img("PNG", 3, << <<255, 0, 0>>, <<1, 0, 0>> >>)
BlackP == Img("PNG", 3, << <<0, 0, 0>> >>)
\* A single-band (mode L or P) picture.
GrayP  == Img("PNG", 1, << <<128>> >>)

IsImage(x) == x.kind = "image"

\* Image.save(path): the file holds the picture re-encoded in the format of
\* the path's extension.
SavedAs(img, ext) ==
  [img EXCEPT !.format = IF ext = "png" THEN "PNG" ELSE "JPEG"]

\* A Python list of counts, written by its length and its non-zero entries
\* (0-based index -> count): the list [0, 2, 0] is CountList(3, (1 :> 2)).
CountList(n, nz) == [kind |-> "list", len |-> n, nz |-> nz]

\* Image.histogram(): NumBuckets counts per band, bands concatenated; the
\* count at b * NumBuckets + v is the number of pixels with value v in band b.
histogram(img) ==
  LET at == {b * NumBuckets + img.pixels[p][b + 1] :
               p \in 1..Len(img.pixels), b \in 0..(img.bands - 1)}
  IN  CountList(NumBuckets * img.bands,
        [k \in at |-> Cardinality({p \in 1..Len(img.pixels) :
           img.pixels[p][(k \div NumBuckets) + 1] = k % NumBuckets})])

\* Python's list[a:b] on a list of counts (clamped to the list).
Slice(s, a, b) ==
  LET lo == IF a > s.len THEN s.len ELSE a
      hi == IF b > s.len THEN s.len ELSE b
      in == {k \in DOMAIN s.nz : lo <= k /\ k < hi}
  IN  CountList(IF hi <= lo THEN 0 ELSE hi - lo,
                [k \in {j - lo : j \in in} |-> s.nz[k + lo]])

\* The sum of f over the indices in S.
RECURSIVE SumOver(_, _)
SumOver(f, S) ==
  IF S = {} THEN 0
  ELSE LET x == CHOOSE y \in S : TRUE IN f[x] + SumOver(f, S \ {x})

\* sum(s): the zero entries add nothing.
SumSeq(s) == SumOver(s.nz, DOMAIN s.nz)

\* sum(i * w for i, w in enumerate(s))
Weighted(s) == SumOver([i \in DOMAIN s.nz |-> i * s.nz[i]], DOMAIN s.nz)

\* Python's seq[a:b] on a TLA+ sequence (0-based, clamped).
SeqSlice(s, a, b) ==
  LET lo == IF a > Len(s) THEN Len(s) ELSE a
      hi == IF b > Len(s) THEN Len(s) ELSE b
  IN  IF hi <= lo THEN << >> ELSE SubSeq(s, lo + 1, hi)

\* An exception leaving a function.
Raise(e) == [kind |-> "raise", exc |-> e]
\* A Python list of numbers.
List(v) == [kind |-> "list", v |-> v]

average_color_from_histogram(input_histogram) ==
  LET r == Slice(input_histogram, 0, NumBuckets)
      g == Slice(input_histogram, NumBuckets, NumBuckets * 2)
      b == Slice(input_histogram, NumBuckets * 2, NumBuckets * 3)
  IN  IF SumSeq(r) = 0 \/ SumSeq(g) = 0 \/ SumSeq(b) = 0
      THEN Raise("ZeroDivisionError")
      ELSE List(<<Weighted(r) \div SumSeq(r),
                  Weighted(g) \div SumSeq(g),
                  Weighted(b) \div SumSeq(b)>>)

Abs(x) == IF x < 0 THEN -x ELSE x

\* scipy.stats.wasserstein_distance(u, v) for two samples of equal weights:
\* the integral of |U - V| over the sorted union of the sample points, U and
\* V the empirical distribution functions.  Both samples have 3 points, so
\* 3 * distance = sum over consecutive points x < y of |#(u<=x) - #(v<=x)| * (y-x).
CountLE(u, x) == Cardinality({i \in 1..Len(u) : u[i] <= x})
wasserstein_distance(u, v) ==
  LET pts == {u[i] : i \in 1..Len(u)} \cup {v[i] : i \in 1..Len(v)}
      NextPt(x) == CHOOSE y \in pts : y > x /\ \A z \in pts : z > x => z >= y
      RECURSIVE Area(_)
      Area(x) == IF \A y \in pts : y <= x THEN 0
                 ELSE Abs(CountLE(u, x) - CountLE(v, x)) * (NextPt(x) - x)
                      + Area(NextPt(x))
      lo == CHOOSE x \in pts : \A y \in pts : x <= y
  IN  Area(lo)

\* ------------------------------------------------------- file system
\* A file name: stem and extension.  LOGO_CACHE and UPLOAD_FOLDER are the
\* same directory, so one name is one file of it.
Path(stem, ext) == <<stem, ext>>

\* os.path.join(LOGO_CACHE, row["symbol"] + ".png")
cache_location(symbol) == Path(symbol, "png")

\* A name as the browser sends it: directories, stem, extension
\* (ext = "" for a name without a dot).
UploadName(dir, stem, ext) == [dir |-> dir, stem |-> stem, ext |-> ext]
EmptyName == UploadName("", "", "")

\* "." in filename and filename.rsplit(".", 1)[1].lower() in ALLOWED_EXTENSIONS
\* (the model's extensions are lower case already).
allowed_file(filename) ==
  filename.ext # "" /\ filename.ext \in ALLOWED_EXTENSIONS

\* werkzeug's secure_filename: path separators and leading dots are removed,
\* so "../A.png" becomes "A.png".
secure_filename(filename) == Path(filename.stem, filename.ext)

\* row["logo_url"].replace("https", "http")
HttpOf(url) == IF url = "https://l" THEN "http://l" ELSE url

\* ------------------------------------------------------------ inputs
KeyNames == <<"K1", "K2", "K3", "K4">>

\* The (symbol, shortName, logo_url) of one record of the feed: complete,
\* or with one field missing, or with one field the empty string.
FieldChoices ==
  { <<"A", "Acme", "https://l">>, <<"B", "Bolt", "https://l">>,
    <<NA, "Acme", "https://l">>, <<"A", NA, "https://l">>, <<"A", "Acme", NA>>,
    <<"", "Acme", "https://l">>, <<"A", "", "https://l">>, <<"A", "Acme", "">> }

RawRecord(k, f) ==
  [index |-> k, symbol |-> f[1], shortName |-> f[2], logo_url |-> f[3]]

\* spy_data.json: with or without the key "stock_data", and its records in
\* the order of the file.
Sources ==
  { [has_stock_data |-> FALSE, stock_data |-> << >>] } \cup
  UNION { { [has_stock_data |-> TRUE,
             stock_data |-> [i \in 1..n |-> RawRecord(KeyNames[i], f[i])]] :
            f \in [1..n -> FieldChoices] } : n \in 0..MaxRecords }

\* What the logo server answers to one GET.
WebResponses == {NetError, Junk, RedJ, GrayP}
\* Image.save(cache_location): done, or failed leaving no file, or failed
\* leaving a truncated file.
SaveOutcomes == {"saved", "failed_nofile", "failed_partial"}

\* What a browser posts: the file part (or none), its name, its content.
Request(has_part, filename, content) ==
  [has_part |-> has_part, filename |-> filename, content |-> content]
Requests ==
  { Request(FALSE, EmptyName, Junk), Request(TRUE, EmptyName, Junk),
    Request(TRUE, UploadName("", "query", "gif"), RedJ),
    Request(TRUE, UploadName("", "query", "jpg"), RedJ),
    Request(TRUE, UploadName("", "query", "jpg"), Junk),
    Request(TRUE, UploadName("..", "A", "png"), RedJ),
    Request(TRUE, UploadName("..", "A", "png"), GrayP) }

\* The files the model reads or writes: the cache files of the symbols and
\* the files the accepted uploads are saved to.
DiskPaths ==
  { cache_location(s) : s \in {"A", "B", ""} } \cup
  { secure_filename(r.filename) :
      r \in {q \in Requests : q.has_part /\ allowed_file(q.filename)} }

\* -------------------------------------------------------------- state
VARIABLES
  source,            \* spy_data.json
  disk,              \* static/logo_cache: file name -> content
  pc,                \* "start", "download", "serving" or "fatal"
  fatal,             \* the exception that ended __init__ ("" if none)
  clean_data,        \* self.clean_data: the rows of the frame
  applied,           \* results of the apply of download_logos so far
  indices,           \* self.indices: (symbol, position) pairs
  current_image,     \* self.current_image
  current_histogram, \* self.current_histogram
  current_rgb,       \* self.current_rgb
  response,          \* the reply of the request being answered
  restarts,          \* process restarts so far
  calls,             \* history: the download_logos calls of this process
  stored,            \* history: what the first successful fetch stored
  built              \* history: clean_data and indices when __init__ ended

vars == <<source, disk, pc, fatal, clean_data, applied, indices,
          current_image, current_histogram, current_rgb, response,
          restarts, calls, stored, built>>

NoResponse == [kind |-> "none"]

\* ----------------------------------------------------- download_logos
\* Faulty variant: the body of the try block without the look into the cache:
\* every call goes to the network and writes the file.
TryFetch_NoCache(row, d, web, save) ==
  LET loc == cache_location(row.symbol) IN
  IF web = NetError
  THEN [kind |-> "raise", value |-> None, disk |-> d,
        network |-> TRUE, failure |-> "network"]
  ELSE IF ~IsImage(web)
  THEN [kind |-> "raise", value |-> None, disk |-> d,
        network |-> TRUE, failure |-> "decode"]
  ELSE [kind |-> "return", value |-> web,
        disk |-> [d EXCEPT ![loc] = SavedAs(web, "png")],
        network |-> TRUE, failure |-> "none"]

\* The body of the try block: how it ends, the file system it leaves and
\* whether it went to the network.
TryFetch(row, d, web, save) ==
  LET loc == cache_location(row.symbol) IN
  IF d[loc] # NoFile
  THEN \* os.path.isfile: return Image.open(cache_location)
       IF IsImage(d[loc])
       THEN [kind |-> "return", value |-> d[loc], disk |-> d,
             network |-> FALSE, failure |-> "none"]
       ELSE [kind |-> "raise", value |-> None, disk |-> d,
             network |-> FALSE, failure |-> "cache_read"]
  ELSE IF web = NetError
  THEN [kind |-> "raise", value |-> None, disk |-> d,
        network |-> TRUE, failure |-> "network"]
  ELSE IF ~IsImage(web)
  THEN [kind |-> "raise", value |-> None, disk |-> d,
        network |-> TRUE, failure |-> "decode"]
  ELSE IF save = "saved"
  THEN [kind |-> "return", value |-> web,
        disk |-> [d EXCEPT ![loc] = SavedAs(web, "png")],
        network |-> TRUE, failure |-> "none"]
  ELSE [kind |-> "raise", value |-> None,
        disk |-> IF save = "failed_partial"
                 THEN [d EXCEPT ![loc] = Junk] ELSE d,
        network |-> TRUE, failure |-> "save"]

\* Faulty variant: download_logos with no except clause around the body.
download_logos_NoExcept(row, d, web, save) ==
  IF row.logo_url # ""
  THEN TryFetch(row, d, web, save)
  ELSE [kind |-> "return", value |-> None, disk |-> d,
        network |-> FALSE, failure |-> "empty_url"]

download_logos(row, d, web, save) ==
  IF row.logo_url # ""
  THEN LET t == TryFetch(row, d, web, save) IN
       IF t.kind = "raise"
       THEN \* except: log, return None
            [t EXCEPT !.kind = "return", !.value = None]
       ELSE t
  ELSE [kind |-> "return", value |-> None, disk |-> d,
        network |-> FALSE, failure |-> "empty_url"]

\* ------------------------------------------------------------- pandas
\* A row with a missing value in one of the useful fields.
HasNA(r) == \E i \in 1..Len(useful_fields) : r[useful_fields[i]] = NA

\* Faulty variant: dropna(subset=["symbol"]), the other fields unchecked.
dropna_SymbolOnly(rows) == SelectSeq(rows, LAMBDA r : r.symbol # NA)

\* DataFrame.dropna() on the frame of the three useful fields.
dropna(rows) == SelectSeq(rows, LAMBDA r : ~HasNA(r))

\* Series.drop_duplicates(): an element is dropped when an earlier element
\* has the same VALUE (the labels, here the symbols, play no part).
drop_duplicates(series) ==
  LET keep == {i \in 1..Len(series) :
                 \A j \in 1..(i - 1) : series[j].value # series[i].value}
      RECURSIVE Pick(_)
      Pick(i) == IF i > Len(series) THEN << >>
                 ELSE (IF i \in keep THEN <<series[i]>> ELSE << >>) \o Pick(i + 1)
  IN  Pick(1)

average_image_color(row) ==
  average_color_from_histogram(histogram(row.image))

\* Series.argsort() with the default kind "quicksort", which is not stable:
\* every order of the 0-based positions along which the values do not
\* decrease is a possible result.
RECURSIVE OrdersOf(_, _)
OrdersOf(d, left) ==
  IF left = {} THEN { << >> }
  ELSE UNION { { <<p - 1>> \o t : t \in OrdersOf(d, left \ {p}) } :
               p \in {q \in left : \A r \in left : d[q] <= d[r]} }
argsort(d) == OrdersOf(d, 1..Len(d))

get_rgb_distance(row, rgb) ==
  wasserstein_distance(row.average_color.v, rgb.v)

\* -------------------------------------------------- get_recommendation
\* The fields of the RecommendationSystem a request reads and writes.
Self == [clean_data |-> clean_data, current_image |-> current_image,
         current_histogram |-> current_histogram, current_rgb |-> current_rgb]

\* Faulty variant: the slice [0:5]: the closest entry is not dropped.
Closest_NoDrop(cd, order) ==
  LET picked == SeqSlice(order, 0, SliceTo - SliceFrom) IN
  [kind |-> "return",
   rows |-> [i \in 1..Len(picked) |->
               [pos |-> picked[i], symbol |-> cd[picked[i] + 1].symbol,
                shortName |-> cd[picked[i] + 1].shortName]],
   scores |-> [i \in 1..Len(picked) |-> cd[picked[i] + 1].rgb_distance]]

\* Faulty variant: positions 1 to 5 read one by one: a short catalog raises.
Closest_Indexed(cd, order) ==
  IF Len(order) < SliceTo THEN Raise("IndexError")
  ELSE LET picked == SeqSlice(order, SliceFrom, SliceTo) IN
       [kind |-> "return",
        rows |-> [i \in 1..Len(picked) |->
                    [pos |-> picked[i], symbol |-> cd[picked[i] + 1].symbol,
                     shortName |-> cd[picked[i] + 1].shortName]],
        scores |-> [i \in 1..Len(picked) |-> cd[picked[i] + 1].rgb_distance]]

\* iloc[...argsort()[1:6]] and the two values returned: the rows (position,
\* symbol, shortName) and their distances.
Closest(cd, order) ==
  LET picked == SeqSlice(order, SliceFrom, SliceTo) IN
  [kind |-> "return",
   rows |-> [i \in 1..Len(picked) |->
               [pos |-> picked[i], symbol |-> cd[picked[i] + 1].symbol,
                shortName |-> cd[picked[i] + 1].shortName]],
   scores |-> [i \in 1..Len(picked) |-> cd[picked[i] + 1].rgb_distance]]

\* Faulty variant: get_recommendation sorting the shared table in place by distance.
get_recommendation_InPlace(self, d, input_filepath) ==
  LET img == d[input_filepath] IN
  IF ~IsImage(img)
  THEN { [self |-> self, result |-> Raise("UnidentifiedImageError")] }
  ELSE
    LET hist == histogram(img)
        rgb == average_color_from_histogram(hist)
        s1 == [self EXCEPT !.current_image = img,
                           !.current_histogram = hist]
    IN
    IF rgb.kind = "raise"
    THEN { [self |-> s1, result |-> rgb] }
    ELSE
      LET cd == [i \in 1..Len(self.clean_data) |->
                   [rgb_distance |-> get_rgb_distance(self.clean_data[i], rgb)]
                   @@ self.clean_data[i]]
          dist == [i \in 1..Len(cd) |-> cd[i].rgb_distance]
      IN { [self |-> [s1 EXCEPT !.current_rgb = rgb,
                        !.clean_data = [i \in 1..Len(cd) |-> cd[order[i] + 1]]],
            result |-> Closest(cd, order)] : order \in argsort(dist) }

\* Every way get_recommendation(input_filepath) can end on the instance
\* self and the file system d: the instance it leaves and what it returns
\* or raises.
get_recommendation(self, d, input_filepath) ==
  LET img == d[input_filepath] IN
  IF ~IsImage(img)
  THEN { [self |-> self, result |-> Raise("UnidentifiedImageError")] }
  ELSE
    LET hist == histogram(img)
        rgb == average_color_from_histogram(hist)
        s1 == [self EXCEPT !.current_image = img,
                           !.current_histogram = hist]
    IN
    IF rgb.kind = "raise"
    THEN { [self |-> s1, result |-> rgb] }
    ELSE
      LET cd == [i \in 1..Len(self.clean_data) |->
                   [rgb_distance |-> get_rgb_distance(self.clean_data[i], rgb)]
                   @@ self.clean_data[i]]
          s2 == [s1 EXCEPT !.current_rgb = rgb, !.clean_data = cd]
          dist == [i \in 1..Len(cd) |-> cd[i].rgb_distance]
      IN { [self |-> s2, result |-> Closest(cd, order)] : order \in argsort(dist) }

\* ------------------------------------------------------------ actions
\* __init__, lines 43-45: load the feed, keep the useful fields, dropna.
Load ==
  /\ pc = "start"
  /\ IF source.has_stock_data
     THEN /\ clean_data' = dropna(source.stock_data)
          /\ pc' = "download"
          /\ fatal' = ""
     ELSE /\ clean_data' = clean_data
          /\ pc' = "fatal"
          /\ fatal' = "AssertionError"
  /\ UNCHANGED <<source, disk, applied, indices, current_image,
                 current_histogram, current_rgb, response, restarts, calls,
                 stored, built>>

\* __init__, line 48: the apply calls download_logos on the next row.
DownloadLogos(web, save) ==
  /\ pc = "download"
  /\ Len(applied) < Len(clean_data)
  /\ LET row == clean_data[Len(applied) + 1]
         loc == cache_location(row.symbol)
         out == download_logos(row, disk, web, save)
         call == [index |-> row.index, symbol |-> row.symbol,
                  url |-> IF out.network THEN HttpOf(row.logo_url) ELSE "",
                  network |-> out.network, failure |-> out.failure,
                  raised |-> out.kind = "raise", value |-> out.value,
                  before |-> disk[loc], after |-> out.disk[loc],
                  first |-> stored[loc]]
     IN /\ calls' = Append(calls, call)
        /\ disk' = out.disk
        /\ stored' = IF stored[loc] = NoFile /\ out.network
                        /\ out.kind = "return" /\ IsImage(out.value)
                     THEN [stored EXCEPT ![loc] = out.disk[loc]]
                     ELSE stored
        /\ IF out.kind = "raise"
           THEN /\ pc' = "fatal"
                /\ fatal' = "download_logos"
                /\ applied' = applied
           ELSE /\ pc' = pc
                /\ fatal' = fatal
                /\ applied' = Append(applied, out.value)
  /\ UNCHANGED <<source, clean_data, indices, current_image,
                 current_histogram, current_rgb, response, restarts, built>>

\* __init__, lines 48-59: the image column, dropna, reset_index, the symbol
\* map, the average_color column, the three current_* fields.
Index ==
  /\ pc = "download"
  /\ Len(applied) = Len(clean_data)
  /\ LET with_image == [i \in 1..Len(clean_data) |->
                          [image |-> applied[i]] @@ clean_data[i]]
         kept == SelectSeq(with_image, LAMBDA r : r.image # None)
         series == [i \in 1..Len(kept) |->
                      [label |-> kept[i].symbol, value |-> i - 1]]
         colors == [i \in 1..Len(kept) |-> average_image_color(kept[i])]
     IN /\ indices' = drop_duplicates(series)
        /\ IF \E i \in 1..Len(kept) : colors[i].kind = "raise"
           THEN /\ clean_data' = kept
                /\ pc' = "fatal"
                /\ fatal' = "ZeroDivisionError"
                /\ built' = built
           ELSE /\ clean_data' = [i \in 1..Len(kept) |->
                                    [average_color |-> colors[i]] @@ kept[i]]
                /\ pc' = "serving"
                /\ fatal' = fatal
                /\ built' = [clean_data |-> clean_data', indices |-> indices']
  /\ current_image' = None
  /\ current_histogram' = None
  /\ current_rgb' = None
  /\ applied' = << >>
  /\ UNCHANGED <<source, disk, response, restarts, calls, stored>>

\* upload(), a POST.
Upload(req) ==
  /\ pc = "serving"
  /\ response = NoResponse
  /\ LET has_part == req.has_part
         filename == req.filename
         content == req.content
     IN
     IF ~has_part
     THEN /\ response' = [kind |-> "page", error_msg |-> "No file uploaded"]
          /\ UNCHANGED <<disk, clean_data, current_image, current_histogram,
                         current_rgb>>
     ELSE IF filename = EmptyName
     THEN /\ response' = [kind |-> "page", error_msg |-> "No file selected"]
          /\ UNCHANGED <<disk, clean_data, current_image, current_histogram,
                         current_rgb>>
     ELSE IF ~allowed_file(filename)
     THEN /\ response' = [kind |-> "redirect"]
          /\ UNCHANGED <<disk, clean_data, current_image, current_histogram,
                         current_rgb>>
     ELSE LET full_filepath == secure_filename(filename) IN
          /\ disk' = [disk EXCEPT ![full_filepath] = content]
          /\ \E out \in get_recommendation(Self, disk', full_filepath) :
               /\ clean_data' = out.self.clean_data
               /\ current_image' = out.self.current_image
               /\ current_histogram' = out.self.current_histogram
               /\ current_rgb' = out.self.current_rgb
               /\ response' = out.result
  /\ UNCHANGED <<source, pc, fatal, applied, indices, restarts, calls,
                 stored, built>>

\* The reply reaches the browser; the server takes the next request.
Deliver ==
  /\ response # NoResponse
  /\ response' = NoResponse
  /\ UNCHANGED <<source, disk, pc, fatal, clean_data, applied, indices,
                 current_image, current_histogram, current_rgb, restarts,
                 calls, stored, built>>

\* The process ends (after serving, or on a fatal __init__) and main() runs
\* again: memory is new, the files stay.
Restart ==
  /\ pc \in {"serving", "fatal"}
  /\ restarts < MaxRestarts
  /\ restarts' = restarts + 1
  /\ pc' = "start"
  /\ fatal' = ""
  /\ clean_data' = << >>
  /\ applied' = << >>
  /\ indices' = << >>
  /\ current_image' = None
  /\ current_histogram' = None
  /\ current_rgb' = None
  /\ calls' = << >>
  /\ built' = None
  /\ response' = NoResponse
  /\ UNCHANGED <<source, disk, stored>>

\* ---------------------------------------------------- specifications
Init ==
  /\ source \in Sources
  /\ disk = [p \in DiskPaths |-> NoFile]
  /\ pc = "start"
  /\ fatal = ""
  /\ clean_data = << >>
  /\ applied = << >>
  /\ indices = << >>
  /\ current_image = None
  /\ current_histogram = None
  /\ current_rgb = None
  /\ response = NoResponse
  /\ restarts = 0
  /\ calls = << >>
  /\ stored = [p \in DiskPaths |-> NoFile]
  /\ built = None

Build ==
  \/ Load
  \/ \E web \in WebResponses, save \in SaveOutcomes : DownloadLogos(web, save)
  \/ Index

Serve ==
  \/ \E req \in Requests : Upload(req)
  \/ Deliver

\* One run of main(): __init__, then the server answers requests.
Next == Build \/ Serve

Spec == Init /\ [][Next]_vars

\* Successive runs of __init__ over the same cache directory, with no
\* request made in between: the fetches alone.
NextBuild == Build \/ Restart
SpecBuild == Init /\ [][NextBuild]_vars

\* ------------------------------------------------- a built catalog
\* The program right after __init__ on a feed of n complete records with
\* distinct symbols, every logo fetched from the network and cached.
RankSymbols == <<"S1", "S2", "S3", "S4", "S5", "S6", "S7", "S8">>
CatalogImages == {GreenP, MixP, BlackP}
RankRequests ==
  { Request(TRUE, UploadName("", "query", "jpg"), c) : c \in {RedJ, MixP} }
RankPaths ==
  { cache_location(RankSymbols[i]) : i \in 1..MaxCatalog } \cup
  { secure_filename(r.filename) : r \in RankRequests }

RankRow(i, img) ==
  [index |-> RankSymbols[i], symbol |-> RankSymbols[i], shortName |-> "Corp",
   logo_url |-> "https://l", image |-> img,
   average_color |-> average_color_from_histogram(histogram(img))]

InitRank ==
  \E n \in 1..MaxCatalog : \E imgs \in [1..n -> CatalogImages] :
    /\ source = [has_stock_data |-> TRUE,
                 stock_data |-> [i \in 1..n |->
                    RawRecord(RankSymbols[i],
                              <<RankSymbols[i], "Corp", "https://l">>)]]
    /\ clean_data = [i \in 1..n |-> RankRow(i, imgs[i])]
    /\ indices = drop_duplicates([i \in 1..n |->
                    [label |-> RankSymbols[i], value |-> i - 1]])
    /\ disk = [p \in RankPaths |->
                 IF \E i \in 1..n : p = cache_location(RankSymbols[i])
                 THEN SavedAs(imgs[CHOOSE i \in 1..n :
                                     p = cache_location(RankSymbols[i])], "png")
                 ELSE NoFile]
    /\ stored = disk
    /\ calls = [i \in 1..n |->
                  [index |-> RankSymbols[i], symbol |-> RankSymbols[i],
                   url |-> "http://l", network |-> TRUE, failure |-> "none",
                   raised |-> FALSE, value |-> imgs[i], before |-> NoFile,
                   after |-> SavedAs(imgs[i], "png"), first |-> NoFile]]
    /\ built = [clean_data |-> clean_data, indices |-> indices]
    /\ pc = "serving"
    /\ fatal = ""
    /\ applied = << >>
    /\ current_image = None
    /\ current_histogram = None
    /\ current_rgb = None
    /\ response = NoResponse
    /\ restarts = 0

NextRank ==
  \/ \E req \in RankRequests : Upload(req)
  \/ Deliver

SpecRank == InitRank /\ [][NextRank]_vars

\* ----------------------------------------------------------- claims
\* What the claims read off the state.
Served == response.kind \in {"return", "raise"}
Returned == response.kind = "return"
\* 0-based positions of the catalog and of the rows returned.
Positions == {i - 1 : i \in 1..Len(clean_data)}
ReturnedPos == {response.rows[i].pos : i \in 1..Len(response.rows)}
DistAt(p) == clean_data[p + 1].rgb_distance
MinDist == CHOOSE m \in {DistAt(p) : p \in Positions} :
             \A p \in Positions : m <= DistAt(p)
\* The returned scores are the distances of the returned rows to the query.
ScoresAreDistances ==
  \A i \in 1..Len(response.rows) :
    /\ response.scores[i] = DistAt(response.rows[i].pos)
    /\ response.scores[i] =
         wasserstein_distance(
           clean_data[response.rows[i].pos + 1].average_color.v, current_rgb.v)
    /\ response.rows[i].symbol = clean_data[response.rows[i].pos + 1].symbol
\* All rows but one of least distance are on the far side of the last row.
DropsOneClosest ==
  \E p \in Positions \ ReturnedPos :
    /\ DistAt(p) = MinDist
    /\ \A q \in Positions \ (ReturnedPos \cup {p}) :
         \A i \in 1..Len(response.rows) : response.scores[i] <= DistAt(q)

C8_ShortCatalog ==
  (Served /\ Len(clean_data) < SliceTo) =>
    /\ Returned
    /\ Len(response.rows) = Len(clean_data) - 1
    /\ Cardinality(ReturnedPos) = Len(response.rows)
    /\ ReturnedPos \subseteq Positions
    /\ ScoresAreDistances
    /\ DropsOneClosest
    /\ (Len(clean_data) = 1 => response.rows = << >> /\ response.scores = << >>)

\* A catalog of one entry answered with no rows.
C8_Witness ==
  /\ Returned
  /\ Len(clean_data) = 1
  /\ response.rows = << >>

\* The order a stable sort gives: by distance, then by catalog position.
RECURSIVE StableFrom(_)
StableFrom(left) ==
  IF left = {} THEN << >>
  ELSE LET p == CHOOSE q \in left :
                  \A r \in left : DistAt(q) < DistAt(r)
                                  \/ (DistAt(q) = DistAt(r) /\ q <= r)
       IN  <<p>> \o StableFrom(left \ {p})

\* C10 (as stated): entries at equal distance keep catalog order, so the
\* rows returned are positions 1 to 5 of the order by (distance, position).
C10_Claim ==
  Returned =>
    [i \in 1..Len(response.rows) |-> response.rows[i].pos]
      = SeqSlice(StableFrom(Positions), SliceFrom, SliceTo)

\* The calls of download_logos made so far, and those for one raw record.
Calls == {calls[i] : i \in 1..Len(calls)}
CallsFor(r) == {c \in Calls : c.index = r.index}
RawRecords == {source.stock_data[i] : i \in 1..Len(source.stock_data)}
\* The raw records that are rows of the built catalog.
InCatalog(r) ==
  pc = "serving" /\ \E i \in 1..Len(clean_data) : clean_data[i].index = r.index
\* ... and those that are part of the reply to a request.
InReply(r) ==
  Returned /\ \E p \in ReturnedPos : clean_data[p + 1].index = r.index

\* C2: no exception leaves download_logos; a call in which anything failed
\* (empty URL, network, decoding, cache write, cache read) returns None, and
\* the rows of the built catalog are exactly the calls that returned an
\* image, in order.
C2_NoEscape ==
  /\ \A c \in Calls :
       /\ ~c.raised
       /\ (c.failure # "none" => c.value = None)
       /\ (c.failure = "none" => IsImage(c.value))
  /\ fatal # "download_logos"
  /\ pc = "serving" =>
       [i \in 1..Len(clean_data) |->
          <<clean_data[i].index, clean_data[i].image>>]
       = [i \in 1..Len(SelectSeq(calls, LAMBDA c : c.value # None)) |->
            <<SelectSeq(calls, LAMBDA c : c.value # None)[i].index,
              SelectSeq(calls, LAMBDA c : c.value # None)[i].value>>]

\* A build that ended after a failed cache write and a failed cache read.
C2_Witness ==
  /\ pc = "serving"
  /\ \E c \in Calls : c.failure = "save"
  /\ \E c \in Calls : c.failure = "cache_read"

Incomplete(r) ==
  \/ HasNA(r)
  \/ r.symbol = "" \/ r.shortName = "" \/ r.logo_url = ""
\* A feed with the key "stock_data" and nothing but complete records.
CompleteFeed ==
  source.has_stock_data /\ \A r \in RawRecords : ~Incomplete(r)

\* C4 (as stated, read on the feeds of complete records): a feed that has
\* the key "stock_data" never ends __init__ with an exception, whatever
\* becomes of the logos of its records.
C4_Claim == CompleteFeed => pc # "fatal"

\* C5 (as stated, read on the feeds of complete records): in the built
\* catalog the symbol map has one entry per symbol, at the position of the
\* first row with that symbol, and no two rows have the same symbol.
C5_Claim ==
  (pc = "serving" /\ CompleteFeed) =>
    /\ \A i, j \in 1..Len(indices) :
         indices[i].label = indices[j].label => i = j
    /\ \A i \in 1..Len(indices) :
         /\ clean_data[indices[i].value + 1].symbol = indices[i].label
         /\ \A j \in 1..indices[i].value :
              clean_data[j].symbol # indices[i].label
    /\ \A i, j \in 1..Len(clean_data) :
         clean_data[i].symbol = clean_data[j].symbol => i = j

C7_Claim ==
  [][pc = "serving" =>
       \A i \in 1..Len(clean_data) :
         disk'[cache_location(clean_data[i].symbol)]
           = disk[cache_location(clean_data[i].symbol)]]_vars

\* A row without the column a request adds.
WithoutDistance(row) ==
  [f \in (DOMAIN row) \ {"rgb_distance"} |-> row[f]]

\* C9 (as stated): while the program serves, the shared instance is as
\* __init__ left it: table, symbol map, and the three current_* fields.
C9_Original ==
  pc = "serving" =>
    /\ clean_data = built.clean_data
    /\ indices = built.indices
    /\ current_image = None
    /\ current_histogram = None
    /\ current_rgb = None

\* C9 (amended): a request leaves the rows of the table (their order and
\* their symbol, shortName, logo_url, image and average_color) and the symbol
\* map as __init__ left them; it writes the query's image, histogram and
\* signature to the current_* fields and the distances to the query into the
\* rgb_distance column, and these stay on the shared instance afterwards.
C9_Amended ==
  pc = "serving" =>
    /\ indices = built.indices
    /\ [i \in 1..Len(clean_data) |-> WithoutDistance(clean_data[i])]
         = built.clean_data
    /\ current_histogram # None => current_histogram = histogram(current_image)
    /\ current_rgb # None =>
         /\ current_image # None
         /\ \A i \in 1..Len(clean_data) :
              clean_data[i].rgb_distance
                = get_rgb_distance(clean_data[i], current_rgb)
    /\ current_rgb = None =>
         \A i \in 1..Len(clean_data) : "rgb_distance" \notin DOMAIN clean_data[i]

\* A reply delivered, and the query's signature and distances still there.
C9_Witness ==
  /\ pc = "serving"
  /\ response = NoResponse
  /\ current_rgb # None
  /\ Len(clean_data) >= 1
  /\ clean_data # built.clean_data

=============================================================================
